---- MODULE Spec2Model ----
(***************************************************************************)
(* A model of pipeline/core/component.py: the PipelineComponent base class *)
(* (construction, the `asynchronous` property, the state accessors, the    *)
(* extra-handler runner, the invocation envelope __call__,                 *)
(* add_extra_handler, the runtime info and info_dict).                     *)
(*                                                                         *)
(* Python values are encoded so that TLC can compare them:                 *)
(*   - Optional[T]: None is <<>>, a value x is <<x>>;                      *)
(*   - str used as a component name: a sequence of one-character strings;  *)
(*   - dict: a function whose DOMAIN is the set of keys.                   *)
(***************************************************************************)
EXTENDS Integers, Sequences, FiniteSets, TLC

VARIABLES
    ctor,               \* the last call of PipelineComponent.__init__ and its outcome
    framework_states,   \* ctx.framework_states of the one session (a dict of dicts)
    got,                \* the last call of get_state and its outcome
    written,            \* per path: the value last passed to _set_state (history)
    comp,               \* the components of the tree, by path
    children,           \* the group's list of children (paths), in declared order
    run,                \* per component: where its current invocation stands
    loop,               \* the group's position in its list of children
    top,                \* the caller of the root component
    hist,               \* per component: what happened in the current pipeline run (history)
    atCall,             \* framework_states when the root was last invoked (history)
    info                \* the last introspection record built (info_dict, runtime info)

vars == <<ctor, framework_states, got, written, comp, children, run, loop, top, hist, atCall, info>>
runVars == <<comp, children, run, loop, top, hist, atCall>>

(***************************************************************************)
(* Bounds of the model.                                                    *)
(***************************************************************************)
MaxNameLen == 2
MaxTimeout == 1
MaxInvocations == 2
MaxFunctions == 2

(***************************************************************************)
(* Optional values.                                                        *)
(***************************************************************************)
None == <<>>
Some(x) == <<x>>
IsNone(o) == o = <<>>
Val(o) == o[1]

(***************************************************************************)
(* Names: strings over a small alphabet that has the path separator.       *)
(***************************************************************************)
Separator == "."
Alphabet == {"a", "b", Separator}

RECURSIVE StringsOfLen(_)
StringsOfLen(n) ==
    IF n = 0 THEN {<<>>}
    ELSE {Append(s, c) : s \in StringsOfLen(n - 1), c \in Alphabet}

Strings == UNION {StringsOfLen(n) : n \in 0..MaxNameLen}

\* Python's `sub in s` for a one-character sub
Contains(s, c) == \E i \in 1..Len(s) : s[i] = c

NameValues == {None} \cup {Some(s) : s \in Strings}
PathValues == {None, Some("g"), Some("g.a")}
TimeoutValues == {None} \cup {Some(t) : t \in 0..MaxTimeout}
FlagValues == {None, Some(TRUE), Some(FALSE)}
ConditionValues == {None, Some("service_successful_condition")}
HandlerBuilders == {None, Some(<<"f">>)}

(***************************************************************************)
(* ComponentExecutionState: the enum of the four execution states.  A      *)
(* member is written [member |-> name]; its `.name` is the string.         *)
(***************************************************************************)
StateNames == {"NOT_RUN", "RUNNING", "FINISHED", "FAILED"}
Member(n) == [member |-> n]
ComponentExecutionState == {Member(n) : n \in StateNames}
NameOf(m) == m.member

(***************************************************************************)
(* PipelineComponent.__init__                                              *)
(***************************************************************************)
\* line 78: name is not None and (name == "" or "." in name)
NameIsRejectedMutant(name) ==
    /\ ~IsNone(name)
    /\ Contains(Val(name), Separator)

NameIsRejected(name) ==
    /\ ~IsNone(name)
    /\ (Val(name) = <<>> \/ Contains(Val(name), Separator))

\* Python truthiness of an Optional[bool]
Truthy(flag) == ~IsNone(flag) /\ Val(flag)

\* line 81: not calculated_async_flag and requested_async_flag
AsyncIsRejected(requested_async_flag, calculated_async_flag) ==
    ~calculated_async_flag /\ Truthy(requested_async_flag)

\* BeforeHandler([] if before_handler is None else before_handler)
ExtraHandler(stage, builder) ==
    [stage |-> stage, functions |-> IF IsNone(builder) THEN <<>> ELSE Val(builder)]

\* the fields assigned by lines 61-76
NewComponent(a) ==
    [ timeout               |-> a.timeout,
      requested_async_flag  |-> a.requested_async_flag,
      calculated_async_flag |-> a.calculated_async_flag,
      start_condition       |-> IF IsNone(a.start_condition)
                                THEN "always_start_condition"
                                ELSE Val(a.start_condition),
      name                  |-> a.name,
      path                  |-> a.path,
      before_handler        |-> ExtraHandler("BEFORE", a.before_handler),
      after_handler         |-> ExtraHandler("AFTER", a.after_handler) ]

\* the outcome of the constructor: which raise was hit, and the object
\* (None when the constructor raised)
PipelineComponent_init(a) ==
    IF NameIsRejected(a.name)
    THEN [raised |-> "NameError", self |-> None]
    ELSE IF AsyncIsRejected(a.requested_async_flag, a.calculated_async_flag)
    THEN [raised |-> "AsyncError", self |-> None]
    ELSE [raised |-> "none", self |-> Some(NewComponent(a))]

\* the property `asynchronous`, line 131
asynchronousMutant(self) == self.calculated_async_flag

asynchronous(self) ==
    IF IsNone(self.requested_async_flag)
    THEN self.calculated_async_flag
    ELSE Val(self.requested_async_flag)

CtorArgs ==
    [ before_handler        : HandlerBuilders,
      after_handler         : HandlerBuilders,
      timeout               : TimeoutValues,
      requested_async_flag  : FlagValues,
      calculated_async_flag : BOOLEAN,
      start_condition       : ConditionValues,
      name                  : NameValues,
      path                  : PathValues ]

NoArgs ==
    [ before_handler |-> None, after_handler |-> None, timeout |-> None,
      requested_async_flag |-> None, calculated_async_flag |-> FALSE,
      start_condition |-> None, name |-> None, path |-> None ]

\* no introspection record has been built
NoInfo == [kind |-> "none"]

CtorInit ==
    /\ ctor = [called |-> FALSE, args |-> NoArgs, raised |-> "none", self |-> None]
    /\ info = NoInfo

\* one component is constructed per behaviour
Construct ==
    /\ ~ctor.called
    /\ \E a \in CtorArgs :
        LET r == PipelineComponent_init(a) IN
        ctor' = [called |-> TRUE, args |-> a, raised |-> r.raised, self |-> r.self]
    /\ UNCHANGED <<framework_states, got, written, runVars, info>>

(***************************************************************************)
(* add_extra_handler: a global extra handler is attached to a component    *)
(* after its construction.                                                 *)
(***************************************************************************)
GlobalExtraHandlerType == {"BEFORE", "AFTER"}
ExtraHandlerFunctions == {"f", "h"}

\* add_extra_handler, lines 184-187: the component after the call
add_extra_handlerMutant(self, global_extra_handler_type, extra_handler) ==
    IF global_extra_handler_type = "BEFORE"
    THEN [self EXCEPT !.before_handler.functions = <<extra_handler>> \o @]
    ELSE [self EXCEPT !.after_handler.functions = <<extra_handler>> \o @]

add_extra_handler(self, global_extra_handler_type, extra_handler) ==
    IF global_extra_handler_type = "BEFORE"
    THEN [self EXCEPT !.before_handler.functions = Append(@, extra_handler)]
    ELSE [self EXCEPT !.after_handler.functions = Append(@, extra_handler)]

\* the list add_extra_handler appends to
Target(self, global_extra_handler_type) ==
    IF global_extra_handler_type = "BEFORE" THEN self.before_handler ELSE self.after_handler

\* a component is constructed with or without handlers of its own
ConstructWithHandlers ==
    /\ ~ctor.called
    /\ \E b \in HandlerBuilders, c \in HandlerBuilders, t \in TimeoutValues, p \in PathValues :
        LET a == [NoArgs EXCEPT !.before_handler = b, !.after_handler = c,
                                !.timeout = t, !.path = p]
            r == PipelineComponent_init(a)
        IN  ctor' = [called |-> TRUE, args |-> a, raised |-> r.raised, self |-> r.self]
    /\ UNCHANGED <<framework_states, got, written, runVars, info>>

\* add_extra_handler is called on the component; `info` keeps the call and
\* the component as it was before the call
AddExtraHandler ==
    /\ ctor.called /\ ctor.raised = "none"
    /\ \E type \in GlobalExtraHandlerType, f \in ExtraHandlerFunctions :
        /\ Len(Target(Val(ctor.self), type).functions) < MaxFunctions
        /\ ctor' = [ctor EXCEPT !.self = Some(add_extra_handler(Val(ctor.self), type, f))]
        /\ info' = [kind |-> "add_extra_handler", type |-> type, extra_handler |-> f,
                    old |-> Val(ctor.self)]
    /\ UNCHANGED <<framework_states, got, written, runVars>>

(***************************************************************************)
(* The session state: ctx.framework_states, a dict from a library's key to *)
(* that library's dict.  The pipeline's own dict maps a component path to  *)
(* the name of an execution state.                                         *)
(***************************************************************************)
PIPELINE_STATE_KEY == "PIPELINE"
Paths == {"g", "g.a", "g.b", "g.c"}
\* the components that call the state accessors outside a pipeline run
StatePaths == {"g", "g.a", "g.b"}

EmptyDict == [k \in {} |-> "x"]
\* d[k] = v
Put(d, k, v) == [x \in DOMAIN d \cup {k} |-> IF x = k THEN v ELSE d[x]]

\* what another library keeps in the same session
OtherEntries == Put(EmptyDict, "OTHER", Put(EmptyDict, "k", "v"))

\* _set_state, lines 93-95
set_stateMutant(fs, path, value) ==
    Put(fs, PIPELINE_STATE_KEY, Put(EmptyDict, path, NameOf(value)))

set_state(fs, path, value) ==
    LET fs1 == IF PIPELINE_STATE_KEY \notin DOMAIN fs
               THEN Put(fs, PIPELINE_STATE_KEY, EmptyDict)
               ELSE fs
    IN  Put(fs1, PIPELINE_STATE_KEY, Put(fs1[PIPELINE_STATE_KEY], path, NameOf(value)))

\* The subscript of ComponentExecutionState[...]: a str, an enum member or None.
StrKey(s)    == [kind |-> "str", v |-> s]
MemberKey(m) == [kind |-> "member", v |-> NameOf(m)]
NoneKey      == [kind |-> "none", v |-> ""]

Returned(m) == [raised |-> "none", value |-> Some(m)]
Raised(e)   == [raised |-> e, value |-> None]

\* ComponentExecutionState[key], line 107: the enum looks a member up by its
\* name, a str; any other key (None, or a member itself) is a KeyError.
EnumGetItemMutant(key) ==
    IF key.kind = "str" /\ key.v \in StateNames
    THEN Returned(Member(key.v))
    ELSE Returned(Member("NOT_RUN"))

EnumGetItem(key) ==
    IF key.kind = "str" /\ key.v \in StateNames
    THEN Returned(Member(key.v))
    ELSE Raised("KeyError")

\* get_state, lines 107-109
get_state(fs, path, default) ==
    IF PIPELINE_STATE_KEY \notin DOMAIN fs
    THEN Raised("KeyError")                      \* ctx.framework_states[PIPELINE_STATE_KEY]
    ELSE LET d == fs[PIPELINE_STATE_KEY] IN      \* .get(self.path, default or None)
         EnumGetItem(IF path \in DOMAIN d THEN StrKey(d[path])
                     ELSE IF ~IsNone(default) THEN MemberKey(Val(default))
                     ELSE NoneKey)

Defaults == {None} \cup {Some(m) : m \in ComponentExecutionState}

\* the value stored at path p of the pipeline's dict, "absent" when there is none
Stored(fs, p) ==
    IF PIPELINE_STATE_KEY \in DOMAIN fs /\ p \in DOMAIN fs[PIPELINE_STATE_KEY]
    THEN fs[PIPELINE_STATE_KEY][p]
    ELSE "absent"

\* get_state has not been called
NoGot ==
    [called |-> FALSE, path |-> "g", default |-> None, recorded |-> None,
     stored |-> "absent", raised |-> "none", value |-> None]

StateInit ==
    /\ framework_states \in {EmptyDict, OtherEntries}
    /\ got = NoGot
    /\ written = [p \in Paths |-> None]

\* a component with a path p of `paths` calls self._set_state(ctx, v)
SetStateOf(paths) ==
    \E p \in paths, v \in ComponentExecutionState :
        /\ framework_states' = set_state(framework_states, p, v)
        /\ written' = [written EXCEPT ![p] = Some(v)]
        /\ UNCHANGED <<ctor, got, info, runVars>>

SetState == SetStateOf(StatePaths)

\* tags that are not names of ComponentExecutionState
ForeignTags == {"finished", "DONE"}

\* the session is caller-owned: code outside the pipeline stores a tag of its
\* own at a component's path
ForeignWrite ==
    \E p \in {"g.a", "g.b"}, tag \in ForeignTags :
        LET fs1 == IF PIPELINE_STATE_KEY \notin DOMAIN framework_states
                   THEN Put(framework_states, PIPELINE_STATE_KEY, EmptyDict)
                   ELSE framework_states
        IN  /\ framework_states' = Put(fs1, PIPELINE_STATE_KEY, Put(fs1[PIPELINE_STATE_KEY], p, tag))
            /\ UNCHANGED <<ctor, got, info, written, runVars>>

\* a leaf calls self._set_state(ctx, v)
SetLeafState == SetStateOf({"g.a", "g.b"})

\* a component with path p calls self.get_state(ctx, d); `recorded` keeps what
\* had last been written at p through _set_state when the call was made, and
\* `stored` what the dict held at p
GetState ==
    \E p \in StatePaths, d \in Defaults :
        LET r == get_state(framework_states, p, d) IN
        /\ got' = [called |-> TRUE, path |-> p, default |-> d, recorded |-> written[p],
                   stored |-> Stored(framework_states, p),
                   raised |-> r.raised, value |-> r.value]
        /\ UNCHANGED <<ctor, framework_states, written, runVars, info>>

(***************************************************************************)
(* _get_runtime_info: the runtime info snapshot of a component.  A dict in *)
(* the snapshot is either an object of its own (ref FALSE, with its        *)
(* value) or the session's own dict object (ref TRUE), which shows every   *)
(* later write.                                                            *)
(***************************************************************************)
\* copy.deepcopy(d), line 202
deepcopyMutant(d) == [ref |-> TRUE, value |-> d]

deepcopy(d) == [ref |-> FALSE, value |-> d]

\* what reading the dict object `o` yields when the session is `fs`
Deref(o, fs) == IF o.ref THEN fs[PIPELINE_STATE_KEY] ELSE o.value

\* the str "[None]" where a name is expected
NoneText == <<"[", "N", "o", "n", "e", "]">>

\* _get_runtime_info, lines 197-203
get_runtime_info(self, fs) ==
    IF PIPELINE_STATE_KEY \notin DOMAIN fs
    THEN Raised("KeyError")
    ELSE [raised |-> "none",
          value  |-> Some([ name            |-> IF IsNone(self.name) THEN NoneText ELSE Val(self.name),
                            path            |-> IF IsNone(self.path) THEN "[None]" ELSE Val(self.path),
                            timeout         |-> self.timeout,
                            asynchronous    |-> asynchronous(self),
                            execution_state |-> deepcopy(fs[PIPELINE_STATE_KEY]) ])]

\* the components whose runtime info is built
InfoComponents ==
    {NewComponent([NoArgs EXCEPT !.name = n, !.path = p, !.timeout = tc[1],
                                 !.calculated_async_flag = tc[2], !.requested_async_flag = tc[3]]) :
        n \in {None, Some(<<"a">>)}, p \in {None, Some("g.a")},
        tc \in {<<None, FALSE, None>>, <<Some(0), TRUE, None>>, <<Some(0), TRUE, Some(FALSE)>>}}

\* a component builds its runtime info; `atBuild` keeps the pipeline's dict of
\* the session as it was then (None: there was none)
GetRuntimeInfo ==
    /\ \E self \in InfoComponents :
        LET r == get_runtime_info(self, framework_states) IN
        info' = [kind |-> "runtime", self |-> self, raised |-> r.raised, value |-> r.value,
                 atBuild |-> IF PIPELINE_STATE_KEY \in DOMAIN framework_states
                             THEN Some(framework_states[PIPELINE_STATE_KEY]) ELSE None]
    /\ UNCHANGED <<ctor, framework_states, got, written, runVars>>

(***************************************************************************)
(* Running a tree.  The tree of the model is the group "g" with some of    *)
(* the leaves "g.a", "g.b" and "g.c", in this order; its root is invoked   *)
(* by `top`, once per pipeline run, on the same session.                   *)
(*                                                                         *)
(* run[p] is the invocation of component p:                                *)
(*   pc       "idle", "pending" (called, _run not begun), "before",        *)
(*            "body", "after" (the three awaits of _run), "settled"        *)
(*   task     whether __call__ made an asyncio task of _run                *)
(*   aw       the awaitable __call__ returned: "none", "created",          *)
(*            "waiting" (the caller awaits it), "cancelling" (it timed     *)
(*            out and waits for the cancelled task), "done"                *)
(*   cancel   the task's cancellation: "no", "requested", "delivered"      *)
(*   err      the error _run will re-raise after its after-handler         *)
(*   outcome  how _run settled: "ok" or the error it raised                *)
(*   result   what the caller of __call__ got: "ok" or the error           *)
(*                                                                         *)
(* hist[p] counts, for the current pipeline run, the calls of p, the       *)
(* executions of its handlers and body and the warnings logged, and keeps  *)
(* the value of its start condition, how its handler ended ("return",      *)
(* "raise", "cancelled") and whether its timeout expired.                  *)
(***************************************************************************)
Root == "g"
Leaves == Paths \ {Root}

Idle ==
    [pc |-> "idle", task |-> FALSE, aw |-> "none", cancel |-> "no",
     err |-> "none", outcome |-> "none", result |-> "none"]

NoHist ==
    [calls |-> 0, cond |-> "none", before |-> 0, body |-> 0, after |-> 0,
     warned |-> 0, fired |-> "no", handler |-> "none"]

LoopStart == [phase |-> "next", i |-> 1, j |-> 1, last |-> 0, err |-> "none"]

\* __call__, line 170: which branch is taken
callMutant(self) == "task"

call(self) == IF asynchronous(self) THEN "task" ELSE "inline"

\* __call__, lines 170-174: the invocation right after the call.  In the task
\* branch asyncio.create_task schedules _run and asyncio.wait_for(...) is
\* returned, not awaited; in the other branch _run begins inline.
Called(self) ==
    [Idle EXCEPT !.pc = "pending",
                 !.task = (call(self) = "task"),
                 !.aw = IF call(self) = "task" THEN "created" ELSE "none"]

\* asyncio.wait_for(task, timeout=self.timeout), line 172.
\* timeout None: no timer.  timeout <= 0: a task that is not done is cancelled
\* at once.  Otherwise a timer is armed when the awaitable is awaited.
ExpiresAtOnce(timeout) == ~IsNone(timeout) /\ Val(timeout) <= 0
HasTimerMutant(timeout) == IF IsNone(timeout) THEN TRUE ELSE Val(timeout) > 0

HasTimer(timeout) == ~IsNone(timeout) /\ Val(timeout) > 0

\* the caller starts awaiting the awaitable of invocation r
AwaitStarted(r, timeout) ==
    IF ExpiresAtOnce(timeout) /\ r.pc # "settled"
    THEN [r EXCEPT !.aw = "cancelling", !.cancel = "requested"]
    ELSE [r EXCEPT !.aw = "waiting"]

\* history: whether the timeout expired at the await, and whether the task
\* had begun by then
FiredAtAwait(r, timeout, fired) ==
    IF ExpiresAtOnce(timeout) /\ r.pc # "settled"
    THEN (IF r.pc = "pending" THEN "pending" ELSE "started")
    ELSE fired

\* wait_for resumes its caller only when the task is done: after a timeout it
\* cancels the task and waits until the cancellation has been carried out
WaitForDoneMutant(r) == r.pc = "settled" \/ r.aw = "cancelling"

WaitForDone(r) == r.pc = "settled"

\* what wait_for hands to its caller: the task's own result or error, or,
\* after a timeout ("if a timeout occurs, it cancels the task and raises
\* TimeoutError"), TimeoutError
WaitForResultMutant(r) == r.outcome

WaitForResult(r) == IF r.aw = "cancelling" THEN "TimeoutError" ELSE r.outcome

\* The outcomes of calling an extra handler (lines 142-144):
\*   call        what `await extra_handler(ctx, actor, info)` does: returns a
\*               plain value, returns an awaitable, raises asyncio.TimeoutError
\*               or raises another error
\*   async       extra_handler.asynchronous
\*   awaited     what awaiting that awaitable does (line 144)
ExtraOutcomes ==
    {[call |-> c, async |-> FALSE, awaited |-> "value"] :
        c \in {"value", "awaitable", "TimeoutError", "Error"}}
    \cup {[call |-> "awaitable", async |-> TRUE, awaited |-> w] :
        w \in {"value", "TimeoutError", "Error"}}

\* run_extra_handler, lines 133-146: `raised` is the error that leaves the
\* method ("none": it returns), `warned` whether line 146 logged a warning,
\* `invoked` whether the handler was called.
run_extra_handlerMutant(self, stage, o, fs) ==
    LET thrown ==
            IF o.call \in {"TimeoutError", "Error"} THEN o.call
            ELSE IF o.call = "awaitable" /\ o.async /\ o.awaited # "value" THEN o.awaited
            ELSE "none"
    IN  [raised |-> IF thrown = "Error" THEN "ExtraHandlerError" ELSE thrown,
         warned |-> FALSE, invoked |-> TRUE]

run_extra_handler(self, stage, o, fs) ==
    LET extra_handler ==
            IF stage = "BEFORE" THEN Some(self.before_handler)
            ELSE IF stage = "AFTER" THEN Some(self.after_handler)
            ELSE None
        thrown ==
            IF o.call \in {"TimeoutError", "Error"} THEN o.call
            ELSE IF o.call = "awaitable" /\ o.async /\ o.awaited # "value" THEN o.awaited
            ELSE "none"
    IN  IF IsNone(extra_handler)
        THEN [raised |-> "none", warned |-> FALSE, invoked |-> FALSE]
        ELSE IF PIPELINE_STATE_KEY \notin DOMAIN fs      \* _get_runtime_info, line 202
        THEN [raised |-> "KeyError", warned |-> FALSE, invoked |-> FALSE]
        ELSE IF thrown = "TimeoutError"                  \* except asyncio.TimeoutError
        THEN [raised |-> "none", warned |-> TRUE, invoked |-> TRUE]
        ELSE IF thrown = "Error"
        THEN [raised |-> "ExtraHandlerError", warned |-> FALSE, invoked |-> TRUE]
        ELSE [raised |-> "none", warned |-> FALSE, invoked |-> TRUE]

\* ServiceGroup: the calculated flag of a group is whether all its children
\* resolve to asynchronous
GroupCalculatedAsync(c, kids) == \A k \in 1..Len(kids) : asynchronous(c[kids[k]])

\* the last child of the maximal run of asynchronous children that starts at i
RECURSIVE BatchEnd(_)
BatchEnd(i) ==
    IF i < Len(children) /\ call(comp[children[i + 1]]) = "task"
    THEN BatchEnd(i + 1)
    ELSE i

LeafArgs(p, calc, t) ==
    [NoArgs EXCEPT !.calculated_async_flag = calc, !.timeout = t,
                   !.name = Some(IF p = "g.a" THEN <<"a">> ELSE IF p = "g.b" THEN <<"b">> ELSE <<"a", "a">>),
                   !.path = Some(p)]

GroupArgs(req, calc) ==
    [NoArgs EXCEPT !.requested_async_flag = req, !.calculated_async_flag = calc,
                   !.name = Some(<<"a", "b">>), !.path = Some(Root)]

\* the lists of children of the group
Trees == {<<"g.a">>, <<"g.a", "g.b">>}
BatchTrees == {<<"g.a", "g.b">>, <<"g.a", "g.b", "g.c">>}

\* the variables of a run while nothing runs
RunIdle ==
    /\ comp = [p \in Paths |-> NewComponent([NoArgs EXCEPT !.path = Some(p)])]
    /\ children = <<>>
    /\ run = [p \in Paths |-> Idle]
    /\ loop = LoopStart
    /\ top = [pc |-> "idle", invocations |-> 0]
    /\ hist = [p \in Paths |-> NoHist]
    /\ atCall = EmptyDict

\* the trees of the model: the leaf "g.a" is built from a synchronous or an
\* asynchronous handler with any timeout, the leaf "g.b" from a handler whose
\* nature is in `natures` and without a timeout, the leaf "g.c" from a
\* synchronous handler, the group with or without the request to be
\* synchronous and without a timeout; the group's children are one of `trees`
TreeInit(natures, trees) ==
    /\ \E ca \in BOOLEAN, cb \in natures, ta \in TimeoutValues, rq \in {None, Some(FALSE)}, kids \in trees :
          LET a == PipelineComponent_init(LeafArgs("g.a", ca, ta))
              b == PipelineComponent_init(LeafArgs("g.b", cb, None))
              c == PipelineComponent_init(LeafArgs("g.c", FALSE, None))
              leaves == [p \in Leaves |-> IF p = "g.a" THEN Val(a.self)
                                          ELSE IF p = "g.b" THEN Val(b.self)
                                          ELSE Val(c.self)]
              g == PipelineComponent_init(GroupArgs(rq, GroupCalculatedAsync(leaves, kids)))
          IN  /\ a.raised = "none" /\ b.raised = "none" /\ c.raised = "none" /\ g.raised = "none"
              /\ comp = [p \in Paths |-> IF p = Root THEN Val(g.self) ELSE leaves[p]]
              /\ children = kids
    /\ run = [p \in Paths |-> Idle]
    /\ loop = LoopStart
    /\ top = [pc |-> "idle", invocations |-> 0]
    /\ hist = [p \in Paths |-> NoHist]
    /\ atCall = EmptyDict

\* trees whose second leaf is synchronous
RunInit == TreeInit({FALSE}, Trees)

(***************************************************************************)
(* Building a group and reading its info_dict.                             *)
(***************************************************************************)
\* the property info_dict, lines 213-223; `type` is type(self).__name__
info_dict(self, type) ==
    [ type            |-> type,
      name            |-> self.name,
      path            |-> IF IsNone(self.path) THEN "[None]" ELSE Val(self.path),
      asynchronous    |-> asynchronous(self),
      start_condition |-> self.start_condition,
      extra_handlers  |-> [before |-> self.before_handler, after |-> self.after_handler] ]

\* a leaf built with a requested flag over a handler of the given nature
LeafArgsWith(p, req, calc) ==
    [LeafArgs(p, calc, None) EXCEPT !.requested_async_flag = req]

\* the leaves are built, then the group over the children `kids`; `ctor`
\* keeps the construction of the group
BuildTree ==
    /\ ~ctor.called
    /\ \E kids \in Trees \cup BatchTrees, rq \in FlagValues,
          ra \in FlagValues, ca \in BOOLEAN, rb \in FlagValues, cb \in BOOLEAN :
          LET a == PipelineComponent_init(LeafArgsWith("g.a", ra, ca))
              b == PipelineComponent_init(LeafArgsWith("g.b", rb, cb))
              c == PipelineComponent_init(LeafArgsWith("g.c", None, FALSE))
          IN  /\ a.raised = "none" /\ b.raised = "none" /\ c.raised = "none"
              /\ LET leaves == [p \in Leaves |-> IF p = "g.a" THEN Val(a.self)
                                                  ELSE IF p = "g.b" THEN Val(b.self)
                                                  ELSE Val(c.self)]
                     args == GroupArgs(rq, GroupCalculatedAsync(leaves, kids))
                     g == PipelineComponent_init(args)
                 IN  /\ ctor' = [called |-> TRUE, args |-> args, raised |-> g.raised, self |-> g.self]
                     /\ comp' = [p \in Paths |-> IF p # Root THEN leaves[p]
                                                 ELSE IF g.raised = "none" THEN Val(g.self)
                                                 ELSE comp[p]]
                     /\ children' = kids
    /\ UNCHANGED <<framework_states, got, written, run, loop, top, hist, atCall, info>>

\* the group's info_dict is read
ReadInfoDict ==
    /\ ctor.called /\ ctor.raised = "none"
    /\ info' = [kind |-> "info_dict", value |-> info_dict(Val(ctor.self), "ServiceGroup")]
    /\ UNCHANGED <<ctor, framework_states, got, written, runVars>>

\* self._set_state(ctx, ComponentExecutionState.<name>) by component p
Record(p, name) ==
    /\ framework_states' = set_state(framework_states, p, Member(name))
    /\ written' = [written EXCEPT ![p] = Some(Member(name))]

\* _run of p settles with `out`; an inline _run hands it to the caller of
\* __call__ at once (line 174)
Settled(r, out) ==
    [r EXCEPT !.pc = "settled", !.outcome = out,
              !.result = IF r.task THEN r.result ELSE out]

\* the pipeline invokes the root component
TopCall ==
    /\ top.pc = "idle"
    /\ top.invocations < MaxInvocations
    /\ top' = [pc |-> "called", invocations |-> top.invocations + 1]
    /\ run' = [p \in Paths |-> IF p = Root THEN Called(comp[Root]) ELSE Idle]
    /\ hist' = [p \in Paths |-> IF p = Root THEN [NoHist EXCEPT !.calls = 1] ELSE NoHist]
    /\ loop' = LoopStart
    /\ atCall' = framework_states
    /\ UNCHANGED <<ctor, got, info, comp, children, framework_states, written>>

\* the pipeline awaits the awaitable an asynchronous root returned
TopAwait ==
    /\ top.pc = "called"
    /\ run[Root].aw = "created"
    /\ run' = [run EXCEPT ![Root] = AwaitStarted(@, comp[Root].timeout)]
    /\ hist' = [hist EXCEPT ![Root].fired = FiredAtAwait(run[Root], comp[Root].timeout, @)]
    /\ UNCHANGED <<ctor, got, info, comp, children, framework_states, written, top, loop, atCall>>

\* the root's invocation is over: its result reaches the pipeline
TopReturn ==
    /\ top.pc = "called"
    /\ \/ /\ ~run[Root].task
          /\ run[Root].pc = "settled"
          /\ UNCHANGED run
       \/ /\ run[Root].aw \in {"waiting", "cancelling"}
          /\ WaitForDone(run[Root])
          /\ run' = [run EXCEPT ![Root] = [@ EXCEPT !.aw = "done", !.result = WaitForResult(run[Root])]]
    /\ top' = [top EXCEPT !.pc = "idle"]
    /\ UNCHANGED <<ctor, got, info, comp, children, framework_states, written, hist, loop, atCall>>

(***************************************************************************)
(* _run, the core logic of a component.  It is abstract in                 *)
(* PipelineComponent (lines 148-158); the steps below are those of Service *)
(* and ServiceGroup:                                                       *)
(*     if start_condition: RUNNING; before-handler; the handler (or the    *)
(*     children); FINISHED, or FAILED on an error or a cancellation;       *)
(*     after-handler; re-raise the error                                   *)
(*     else: NOT_RUN                                                       *)
(* A cancelled task gets CancelledError at the await it is suspended in.   *)
(***************************************************************************)
\* the start condition is evaluated; it is any predicate of the session
Start(p) ==
    /\ run[p].pc = "pending"
    /\ run[p].cancel = "no"
    /\ \E holds \in BOOLEAN :
          IF holds
          THEN /\ Record(p, "RUNNING")
               /\ run' = [run EXCEPT ![p].pc = "before"]
               /\ hist' = [hist EXCEPT ![p].cond = "true"]
          ELSE /\ Record(p, "NOT_RUN")
               /\ run' = [run EXCEPT ![p] = Settled(@, "ok")]
               /\ hist' = [hist EXCEPT ![p].cond = "false"]
    /\ UNCHANGED <<ctor, got, info, comp, children, top, loop, atCall>>

\* a task cancelled before its first step never executes _run
CancelPending(p) ==
    /\ run[p].pc = "pending"
    /\ run[p].cancel = "requested"
    /\ run' = [run EXCEPT ![p] = [Settled(@, "CancelledError") EXCEPT !.cancel = "delivered"]]
    /\ UNCHANGED <<ctor, got, info, comp, children, framework_states, written, top, loop, hist, atCall>>

\* await self.run_extra_handler(ExtraHandlerType.BEFORE, ctx, actor)
Before(p) ==
    /\ run[p].pc = "before"
    /\ loop' = IF p = Root THEN LoopStart ELSE loop
    /\ IF run[p].cancel = "requested"
       THEN /\ Record(p, "FAILED")
            /\ run' = [run EXCEPT ![p] = [@ EXCEPT !.pc = "after", !.err = "CancelledError",
                                                   !.cancel = "delivered"]]
            /\ hist' = [hist EXCEPT ![p].before = @ + 1]
       ELSE \E o \in ExtraOutcomes :
            LET r == run_extra_handler(comp[p], "BEFORE", o, framework_states) IN
            /\ hist' = [hist EXCEPT ![p] = [@ EXCEPT
                            !.before = IF r.invoked THEN @ + 1 ELSE @,
                            !.warned = IF r.warned THEN @ + 1 ELSE @]]
            /\ IF r.raised = "none"
               THEN /\ run' = [run EXCEPT ![p].pc = "body"]
                    /\ UNCHANGED <<framework_states, written>>
               ELSE /\ Record(p, "FAILED")
                    /\ run' = [run EXCEPT ![p] = [@ EXCEPT !.pc = "after", !.err = r.raised]]
    /\ UNCHANGED <<ctor, got, info, comp, children, top, atCall>>

\* a leaf runs its handler
Body(p) ==
    /\ p \in Leaves
    /\ run[p].pc = "body"
    /\ IF run[p].cancel = "requested"
       THEN /\ Record(p, "FAILED")
            /\ run' = [run EXCEPT ![p] = [@ EXCEPT !.pc = "after", !.err = "CancelledError",
                                                   !.cancel = "delivered"]]
            /\ hist' = [hist EXCEPT ![p] = [@ EXCEPT !.body = @ + 1, !.handler = "cancelled"]]
       ELSE \E o \in {"return", "raise"} :
            /\ hist' = [hist EXCEPT ![p] = [@ EXCEPT !.body = @ + 1, !.handler = o]]
            /\ IF o = "return"
               THEN /\ Record(p, "FINISHED")
                    /\ run' = [run EXCEPT ![p].pc = "after"]
               ELSE /\ Record(p, "FAILED")
                    /\ run' = [run EXCEPT ![p] = [@ EXCEPT !.pc = "after", !.err = "HandlerError"]]
    /\ UNCHANGED <<ctor, got, info, comp, children, top, loop, atCall>>

\* await self.run_extra_handler(ExtraHandlerType.AFTER, ctx, actor), then
\* the error of the core logic, if any, is re-raised
After(p) ==
    /\ run[p].pc = "after"
    /\ IF run[p].cancel = "requested"
       THEN /\ Record(p, "FAILED")
            /\ run' = [run EXCEPT ![p] = [Settled(@, "CancelledError") EXCEPT !.cancel = "delivered"]]
            /\ hist' = [hist EXCEPT ![p].after = @ + 1]
       ELSE \E o \in ExtraOutcomes :
            LET r == run_extra_handler(comp[p], "AFTER", o, framework_states) IN
            /\ hist' = [hist EXCEPT ![p] = [@ EXCEPT
                            !.after = IF r.invoked THEN @ + 1 ELSE @,
                            !.warned = IF r.warned THEN @ + 1 ELSE @]]
            /\ run' = [run EXCEPT ![p] =
                          Settled(@, IF r.raised # "none" THEN r.raised
                                     ELSE IF run[p].err # "none" THEN run[p].err
                                     ELSE "ok")]
            /\ UNCHANGED <<framework_states, written>>
    /\ UNCHANGED <<ctor, got, info, comp, children, top, loop, atCall>>

\* the timer of wait_for expires while the caller awaits and the task, which
\* has begun, is not done: the task is cancelled
TimerFire(p) ==
    /\ run[p].aw = "waiting"
    /\ HasTimer(comp[p].timeout)
    /\ run[p].pc \notin {"pending", "settled"}
    /\ run' = [run EXCEPT ![p] = [@ EXCEPT !.aw = "cancelling", !.cancel = "requested"]]
    /\ hist' = [hist EXCEPT ![p].fired = "started"]
    /\ UNCHANGED <<ctor, got, info, comp, children, framework_states, written, top, loop, atCall>>

(***************************************************************************)
(* The children of a group: a synchronous child is run alone, a maximal    *)
(* run of asynchronous children is started together and then awaited one   *)
(* by one; after a failure no further child is started.                    *)
(***************************************************************************)
\* the next child or batch is started, or the group's own state is recorded
GroupNext ==
    /\ run[Root].pc = "body"
    /\ loop.phase = "next"
    /\ IF loop.err # "none" \/ loop.i > Len(children)
       THEN /\ Record(Root, IF loop.err # "none" THEN "FAILED" ELSE "FINISHED")
            /\ run' = [run EXCEPT ![Root] = [@ EXCEPT !.pc = "after", !.err = loop.err]]
            /\ hist' = [hist EXCEPT ![Root].body = @ + 1]
            /\ UNCHANGED loop
       ELSE LET last == IF call(comp[children[loop.i]]) = "task" THEN BatchEnd(loop.i) ELSE loop.i
                batch == {children[k] : k \in loop.i..last}
            IN  /\ run' = [p \in Paths |-> IF p \in batch THEN Called(comp[p]) ELSE run[p]]
                /\ hist' = [p \in Paths |-> IF p \in batch THEN [hist[p] EXCEPT !.calls = @ + 1]
                                            ELSE hist[p]]
                /\ loop' = [loop EXCEPT !.phase = IF call(comp[children[loop.i]]) = "task"
                                                  THEN "batch" ELSE "sync",
                                        !.j = loop.i, !.last = last]
                /\ UNCHANGED <<framework_states, written>>
    /\ UNCHANGED <<ctor, got, info, comp, children, top, atCall>>

\* the group starts awaiting the awaitable of the next child of the batch
GroupAwait ==
    /\ run[Root].pc = "body"
    /\ loop.phase = "batch"
    /\ LET c == children[loop.j] IN
       /\ run[c].aw = "created"
       /\ run' = [run EXCEPT ![c] = AwaitStarted(@, comp[c].timeout)]
       /\ hist' = [hist EXCEPT ![c].fired = FiredAtAwait(run[c], comp[c].timeout, @)]
    /\ UNCHANGED <<ctor, got, info, comp, children, framework_states, written, top, loop, atCall>>

\* the child the group waits for is over: its result or error reaches the group
GroupResume ==
    /\ run[Root].pc = "body"
    /\ loop.phase \in {"sync", "batch"}
    /\ LET c == children[loop.j]
           res == IF run[c].task THEN WaitForResult(run[c]) ELSE run[c].result
           err == IF loop.err = "none" /\ res # "ok" THEN res ELSE loop.err
       IN  /\ IF run[c].task
              THEN run[c].aw \in {"waiting", "cancelling"} /\ WaitForDone(run[c])
              ELSE run[c].pc = "settled"
           /\ run' = [run EXCEPT ![c] = [@ EXCEPT !.aw = IF run[c].task THEN "done" ELSE @,
                                                  !.result = res]]
           /\ loop' = IF loop.j < loop.last
                      THEN [loop EXCEPT !.j = loop.j + 1, !.err = err]
                      ELSE [loop EXCEPT !.phase = "next", !.i = loop.last + 1, !.err = err]
    /\ UNCHANGED <<ctor, got, info, comp, children, framework_states, written, top, hist, atCall>>

\* the one pipeline run of a session
TopCallOnce ==
    /\ top.invocations = 0
    /\ TopCall

RunNext ==
    \/ TopCall
    \/ TopAwait
    \/ TopReturn
    \/ \E p \in Paths : Start(p)
    \/ \E p \in Paths : CancelPending(p)
    \/ \E p \in Paths : Before(p)
    \/ \E p \in Paths : Body(p)
    \/ \E p \in Paths : After(p)
    \/ \E p \in Paths : TimerFire(p)
    \/ GroupNext
    \/ GroupAwait
    \/ GroupResume

BatchNext ==
    \/ TopCallOnce
    \/ TopAwait
    \/ TopReturn
    \/ \E p \in Paths : Start(p)
    \/ \E p \in Paths : CancelPending(p)
    \/ \E p \in Paths : Before(p)
    \/ \E p \in Paths : Body(p)
    \/ \E p \in Paths : After(p)
    \/ \E p \in Paths : TimerFire(p)
    \/ GroupNext
    \/ GroupAwait
    \/ GroupResume

TreeNext == BuildTree \/ ReadInfoDict

HandlersNext == ConstructWithHandlers \/ AddExtraHandler

InfoNext == SetLeafState \/ GetRuntimeInfo

StoredNext == ForeignWrite \/ SetLeafState \/ GetState

CtorNext == Construct

StateNext == SetState \/ GetState

Init == CtorInit /\ StateInit /\ RunIdle

RunStateInit ==
    /\ CtorInit
    /\ framework_states = EmptyDict
    /\ got = NoGot
    /\ written = [p \in Paths |-> None]
    /\ RunInit

BatchStateInit ==
    /\ CtorInit
    /\ framework_states = EmptyDict
    /\ got = NoGot
    /\ written = [p \in Paths |-> None]
    /\ TreeInit(BOOLEAN, BatchTrees)

\* construction of one component
SpecCtor == Init /\ [][CtorNext]_vars

\* the state accessors of the components of one tree on one session
SpecState == Init /\ [][StateNext]_vars

\* pipeline runs of one tree on one session
SpecRun == RunStateInit /\ [][RunNext]_vars

\* the state accessors on a session that other code writes to as well
SpecStored == Init /\ [][StoredNext]_vars

\* runtime info snapshots of components of one session, and later writes
SpecInfo == Init /\ [][InfoNext]_vars

\* global extra handlers are attached to one component
SpecHandlers == Init /\ [][HandlersNext]_vars

\* construction of one group over its leaves
SpecTree == Init /\ [][TreeNext]_vars

\* one pipeline run of a tree whose leaves may both be asynchronous
SpecBatch == BatchStateInit /\ [][BatchNext]_vars

(***************************************************************************)
(* Claims about construction (SpecCtor).                                   *)
(***************************************************************************)
RequestsAsyncWithoutCapability(a) ==
    a.requested_async_flag = Some(TRUE) /\ ~a.calculated_async_flag

NameIsBlankOrHasSeparator(a) ==
    \/ a.name = Some(<<>>)
    \/ ~IsNone(a.name) /\ \E i \in 1..Len(Val(a.name)) : Val(a.name)[i] = "."

\* C1: for every requested flag in {unset, true, false} and calculated flag in
\* {true, false}, construction fails on the synchrony check iff requested is
\* true and calculated is false (any other failure is the name check's); a
\* constructed component resolves `asynchronous` to the requested flag when it
\* is set and to the calculated flag when it is unset, and never to true while
\* its calculated flag is false.
C1_AsyncResolution ==
    ctor.called =>
        LET a == ctor.args IN
        /\ RequestsAsyncWithoutCapability(a) => ctor.raised # "none"
        /\ ctor.raised = "AsyncError" => RequestsAsyncWithoutCapability(a)
        /\ (ctor.raised # "none" /\ ~RequestsAsyncWithoutCapability(a))
              => NameIsBlankOrHasSeparator(a)
        /\ ctor.raised = "none" =>
              /\ ~IsNone(ctor.self)
              /\ asynchronous(Val(ctor.self)) =
                    (IF a.requested_async_flag = None THEN a.calculated_async_flag
                     ELSE a.requested_async_flag = Some(TRUE))
              /\ asynchronous(Val(ctor.self)) => a.calculated_async_flag

\* a component built with requested = false over calculated = true
C1_Witness ==
    /\ ctor.called /\ ctor.raised = "none"
    /\ ctor.args.requested_async_flag = Some(FALSE)
    /\ ctor.args.calculated_async_flag
    /\ ~asynchronous(Val(ctor.self))

\* C9: a name that is blank or contains '.' makes construction fail with the
\* name error; a non-blank name without '.' is never refused, and the
\* component built with it (whenever the synchrony check passes) stores that
\* name unchanged.
C9_NameValidation ==
    ctor.called =>
        LET a == ctor.args IN
        /\ NameIsBlankOrHasSeparator(a) => (ctor.raised = "NameError" /\ IsNone(ctor.self))
        /\ (~IsNone(a.name) /\ ~NameIsBlankOrHasSeparator(a)) =>
              /\ ctor.raised # "NameError"
              /\ ~RequestsAsyncWithoutCapability(a) =>
                    (ctor.raised = "none" /\ Val(ctor.self).name = a.name)

\* a component built with the name "ab"
C9_Witness ==
    /\ ctor.called /\ ctor.raised = "none"
    /\ ctor.args.name = Some(<<"a", "b">>)
    /\ Val(ctor.self).name = Some(<<"a", "b">>)

(***************************************************************************)
(* Claims about the state accessors (SpecState).                           *)
(***************************************************************************)
\* C2: get_state on a path at which nothing has been recorded (the pipeline's
\* dict possibly not created yet) returns the default d when one is given,
\* and fails when none is given.
C2_DefaultWhenAbsent ==
    (got.called /\ IsNone(got.recorded)) =>
        IF IsNone(got.default)
        THEN got.raised # "none"
        ELSE got.raised = "none" /\ got.value = got.default

\* C8: after set_state(session, v), get_state(session, d) on the same
\* component returns v for every default d, whatever was written before and
\* whatever is written at other paths afterwards, until the next set_state
\* at that path.
C8_SetThenGet ==
    /\ \A p \in Paths : ~IsNone(written[p]) =>
          \A d \in Defaults : get_state(framework_states, p, d) = Returned(Val(written[p]))
    /\ (got.called /\ ~IsNone(got.recorded)) =>
          (got.raised = "none" /\ got.value = got.recorded)

\* get_state has returned FAILED at "g.a" after writes at two other paths
C8_Witness ==
    /\ got.called /\ got.path = "g.a" /\ got.default = Some(Member("NOT_RUN"))
    /\ got.value = Some(Member("FAILED"))
    /\ ~IsNone(written["g"]) /\ ~IsNone(written["g.b"])

(***************************************************************************)
(* Claims about running components (SpecRun).                              *)
(***************************************************************************)
\* the state recorded at path p, "absent" when there is none
StateAt(fs, p) ==
    IF PIPELINE_STATE_KEY \in DOMAIN fs /\ p \in DOMAIN fs[PIPELINE_STATE_KEY]
    THEN fs[PIPELINE_STATE_KEY][p]
    ELSE "absent"

\* the awaitable of p's invocation timed out after p's core logic had begun,
\* and the caller has got the outcome of its await
TimedOutAndOver(p) == hist[p].fired = "started" /\ run[p].aw = "done"

\* C3: when the core logic of an asynchronous leaf, once begun, exceeds the
\* leaf's timeout, the caller's await raises TimeoutError and the state left
\* at the leaf's path is FAILED, as it is after a handler that raised.
C3_TimeoutFailsLeaf ==
    \A p \in Leaves :
        /\ TimedOutAndOver(p) =>
              /\ run[p].result = "TimeoutError"
              /\ StateAt(framework_states, p) = "FAILED"
        /\ (run[p].pc = "settled" /\ run[p].err = "HandlerError") =>
              StateAt(framework_states, p) = "FAILED"

\* the leaf "g.a" timed out in the middle of its handler
C3_Witness ==
    /\ TimedOutAndOver("g.a")
    /\ hist["g.a"].body = 1
    /\ run["g.a"].result = "TimeoutError"
    /\ StateAt(framework_states, "g.a") = "FAILED"

\* C4: when the timeout of an asynchronous component expires while its task
\* is not done, the task is cancelled and the caller's await ends with
\* TimeoutError, and only once the task is over: the caller never holds
\* TimeoutError while the task still runs.
C4_TimeoutCancelsTask ==
    \A p \in Paths :
        /\ run[p].aw = "cancelling" =>
              (hist[p].fired # "no" /\ run[p].cancel \in {"requested", "delivered"})
        /\ (hist[p].fired # "no" /\ run[p].pc # "settled") =>
              (run[p].aw = "cancelling" /\ run[p].result = "none")
        /\ (hist[p].fired # "no" /\ run[p].aw = "done") =>
              /\ run[p].result = "TimeoutError"
              /\ run[p].pc = "settled"
              /\ run[p].cancel = "delivered"
        /\ run[p].result = "TimeoutError" => run[p].pc = "settled"

\* the caller got TimeoutError from a leaf whose task was cancelled in its
\* after-handler
C4_Witness ==
    /\ run["g.a"].result = "TimeoutError"
    /\ hist["g.a"].fired = "started"
    /\ hist["g.a"].after = 1
    /\ run["g.a"].pc = "settled"

\* C5: a component that resolves to synchronous runs its core logic inline:
\* no task and no awaitable are made, its timeout never fires whatever value
\* is configured (a leaf never ends in a timeout), the caller gets control
\* back only when the core logic has settled, and it gets the core logic's
\* own outcome, an error unchanged.
C5_SynchronousInline ==
    \A p \in Paths :
        (~asynchronous(comp[p]) /\ hist[p].calls > 0) =>
            /\ ~run[p].task
            /\ run[p].aw = "none"
            /\ run[p].cancel = "no"
            /\ hist[p].fired = "no"
            /\ p \in Leaves => run[p].result # "TimeoutError"
            /\ run[p].result # "none" <=> run[p].pc = "settled"
            /\ run[p].pc = "settled" => run[p].result = run[p].outcome
            /\ (p = Root /\ top.pc = "idle") => run[p].pc = "settled"

\* a synchronous leaf with timeout 0 whose handler raised
C5_Witness ==
    /\ ~asynchronous(comp["g.a"])
    /\ comp["g.a"].timeout = Some(0)
    /\ run["g.a"].pc = "settled"
    /\ run["g.a"].result = "HandlerError"

\* C6: whatever a before- or after-handler does (return, time out, raise),
\* run_extra_handler returns normally: no handler outcome becomes the error
\* of the owning component.
C6_HandlersNeverFail ==
    \A p \in Paths :
        /\ run[p].err # "ExtraHandlerError"
        /\ run[p].outcome # "ExtraHandlerError"

\* the extra-handler outcomes that are a timeout
TimesOut(o) ==
    \/ o.call = "TimeoutError"
    \/ o.call = "awaitable" /\ o.async /\ o.awaited = "TimeoutError"

\* C7: when a before- or after-handler times out, run_extra_handler logs a
\* warning and returns normally; the step leaves the recorded states as they
\* are and the component goes on: from the before-handler to its body, from
\* the after-handler to its end with the outcome of the core logic.
C7_HandlerTimeoutSwallowed ==
    /\ [](\A p \in Paths, o \in ExtraOutcomes, stage \in {"BEFORE", "AFTER"} :
            (TimesOut(o) /\ PIPELINE_STATE_KEY \in DOMAIN framework_states) =>
                run_extra_handler(comp[p], stage, o, framework_states)
                    = [raised |-> "none", warned |-> TRUE, invoked |-> TRUE])
    /\ [][\A p \in Paths :
            hist'[p].warned > hist[p].warned =>
                /\ framework_states' = framework_states
                /\ run'[p].err = run[p].err
                /\ \/ run[p].pc = "before" /\ run'[p].pc = "body"
                   \/ /\ run[p].pc = "after" /\ run'[p].pc = "settled"
                      /\ run'[p].outcome = IF run[p].err # "none" THEN run[p].err ELSE "ok"]_vars

\* the before-handler of "g.a" timed out and the leaf is in its body, RUNNING
C7_Witness ==
    /\ hist["g.a"].warned = 1
    /\ run["g.a"].pc = "body"
    /\ StateAt(framework_states, "g.a") = "RUNNING"

\* C10: a component whose start condition is false records NOT_RUN for
\* itself and returns; neither its before-handler, its after-handler nor its
\* body were run, none of its children was invoked, and every descendant's
\* recorded state is what it was when the pipeline run began.
C10_GatedOff ==
    \A p \in Paths :
        hist[p].cond = "false" =>
            /\ StateAt(framework_states, p) = "NOT_RUN"
            /\ run[p].outcome = "ok"
            /\ hist[p].before = 0 /\ hist[p].body = 0 /\ hist[p].after = 0
            /\ hist[p].warned = 0
            /\ p = Root =>
                  \A k \in 1..Len(children) :
                      /\ hist[children[k]].calls = 0
                      /\ run[children[k]].pc = "idle"
                      /\ StateAt(framework_states, children[k]) = StateAt(atCall, children[k])

\* the group is gated off in the second run, its children keep FINISHED and
\* FAILED from the first
C10_Witness ==
    /\ hist[Root].cond = "false"
    /\ top.invocations = 2
    /\ children = <<"g.a", "g.b">>
    /\ StateAt(framework_states, "g.a") = "FINISHED"
    /\ StateAt(framework_states, "g.b") = "FAILED"
    /\ StateAt(framework_states, Root) = "NOT_RUN"

\* the leaf p is over, its start condition held and its handler ended as `how`
LeafOver(p, how) ==
    /\ run[p].pc = "settled"
    /\ hist[p].cond = "true"
    /\ hist[p].handler = how

\* the second half of C11: a handler that raised leaves FAILED, an error
\* reaches the caller and the after-handler was executed exactly once
RaisedLeavesFailed(p) ==
    LeafOver(p, "raise") =>
        /\ StateAt(framework_states, p) = "FAILED"
        /\ run[p].outcome \notin {"none", "ok"}
        /\ run[p].result # "ok"
        /\ hist[p].after = 1

SameBatch(i, j) == \A k \in i..j : asynchronous(comp[children[k]])

\* the invocation r has been started / is being or has been awaited / is in
\* flight (started and not over)
IsStarted(r) == r.pc # "idle"
IsAwaited(r) == r.aw \in {"waiting", "cancelling", "done"}
InFlight(r) == r.pc \notin {"idle", "settled"}

\* C12: within a group, every member of a maximal run of consecutive
\* asynchronous children is started before any member of it is awaited; no
\* child of a later batch and no later synchronous child is started before
\* every earlier child has settled and the group has its result; while a
\* synchronous child runs no sibling is in flight.
C12_BatchOrder ==
    \A i \in 1..Len(children), j \in 1..Len(children) :
        LET ci == run[children[i]]
            cj == run[children[j]]
        IN  /\ (i < j /\ SameBatch(i, j)) =>
                  /\ IsAwaited(ci) => IsStarted(cj)
                  /\ IsAwaited(cj) => IsStarted(ci)
                  /\ IsStarted(ci) <=> IsStarted(cj)
            /\ (i < j /\ ~SameBatch(i, j) /\ IsStarted(cj)) =>
                  /\ ci.pc = "settled"
                  /\ ci.result # "none"
            /\ (i # j /\ ~asynchronous(comp[children[i]]) /\ InFlight(ci)) =>
                  ~InFlight(cj)

\* the asynchronous leaves "g.a" and "g.b" ran their handlers as one batch
\* and are over, and the synchronous leaf "g.c" that follows them is running
C12_Witness ==
    /\ children = <<"g.a", "g.b", "g.c">>
    /\ SameBatch(1, 2)
    /\ hist["g.a"].body = 1 /\ hist["g.b"].body = 1
    /\ run["g.a"].aw = "done" /\ run["g.b"].aw = "done"
    /\ run["g.c"].pc = "body"

\* the final state a leaf records for itself, from how its own run went
OwnFinalState(p) ==
    IF hist[p].cond = "false" THEN "NOT_RUN"
    ELSE IF hist[p].handler = "return" /\ hist[p].fired = "no" THEN "FINISHED"
    ELSE "FAILED"

\* C13: in a batch launched concurrently, a child's task is cancelled only by
\* that child's own timeout: whatever happens to a sibling (it raises, it
\* times out), a launched child without an expired timeout of its own is never
\* cancelled, and the group does not go on before every launched child has
\* run to its end and recorded its own final state.
C13_SiblingsRunOn ==
    \A i \in 1..Len(children) :
        LET c == children[i] IN
        /\ run[c].cancel # "no" => (~IsNone(comp[c].timeout) /\ hist[c].fired # "no")
        /\ (hist[c].calls > 0 /\ run[Root].pc \in {"after", "settled"}) =>
              /\ run[c].pc = "settled"
              /\ run[c].result # "none"
              /\ hist[c].cond # "none" => StateAt(framework_states, c) = OwnFinalState(c)

\* "g.a" was cancelled by its timeout while its sibling "g.b" was still in
\* its before-handler; "g.b" went on, ran its handler and is FINISHED
C13_Witness ==
    /\ SameBatch(1, 2)
    /\ run["g.a"].result = "TimeoutError"
    /\ hist["g.a"].fired = "started"
    /\ hist["g.a"].body = 0
    /\ run["g.b"].cancel = "no"
    /\ hist["g.b"].handler = "return"
    /\ run["g.b"].result = "ok"
    /\ StateAt(framework_states, "g.b") = "FINISHED"
    /\ StateAt(framework_states, "g.a") = "FAILED"

\* a child of the group has failed in the current invocation: loop.err is the
\* first error a child handed to the group
ChildFailed == run[Root].pc \in {"body", "after", "settled"} /\ loop.err # "none"

\* C14: when a child of a group fails, the group's final recorded state is
\* FAILED; the error it re-raises is the child's and it reaches the group's
\* caller only after the group's after-handler has run; and no child declared
\* after a failing synchronous child is started in that invocation.
C14_ChildFailureFailsGroup ==
    /\ (ChildFailed /\ run[Root].pc = "settled") =>
          /\ StateAt(framework_states, Root) = "FAILED"
          /\ hist[Root].after = 1
          /\ run[Root].outcome = loop.err
    /\ (ChildFailed /\ run[Root].pc # "settled") => run[Root].result = "none"
    /\ \A i \in 1..Len(children), j \in 1..Len(children) :
          (/\ i < j
           /\ ~asynchronous(comp[children[i]])
           /\ run[children[i]].pc = "settled"
           /\ run[children[i]].result \notin {"none", "ok"})
          => hist[children[j]].calls = 0

\* the core logic of p, once begun, is over: a leaf's handler has returned,
\* raised or been cancelled; every child a group started is over and the
\* group has its result
CoreSettled(p) ==
    IF p \in Leaves
    THEN hist[p].body = 1 /\ hist[p].handler # "none"
    ELSE \A k \in 1..Len(children) :
            hist[children[k]].calls > 0 =>
                (run[children[k]].pc = "settled" /\ run[children[k]].result # "none")

\* C16: in every execution of a component whose start condition holds, the
\* core logic begins only when the before-handler has completed, and the
\* after-handler begins only when the core logic that had begun is over,
\* by success, by failure or by the cancellation its timeout brought.
C16_HandlerOrder ==
    \A p \in Paths :
        hist[p].cond = "true" =>
            /\ run[p].pc = "before" =>
                  (hist[p].before = 0 /\ hist[p].body = 0 /\ hist[p].after = 0)
            /\ run[p].pc = "body" =>
                  (hist[p].before = 1 /\ hist[p].after = 0 /\ run[p].err = "none")
            /\ (p = Root /\ \E k \in 1..Len(children) : hist[children[k]].calls > 0) =>
                  (hist[p].before = 1 /\ run[p].pc \in {"body", "after", "settled"})
            /\ hist[p].body > 0 => hist[p].before = 1
            /\ run[p].pc = "after" =>
                  /\ hist[p].after = 0
                  /\ hist[p].body > 0 => CoreSettled(p)
                  /\ hist[p].handler = "cancelled" => run[p].cancel = "delivered"
                  /\ p = Root => CoreSettled(p)
            /\ hist[p].after > 0 =>
                  /\ run[p].pc = "settled"
                  /\ hist[p].after = 1
                  /\ p = Root => CoreSettled(p)

\* the handler of "g.a" was cancelled by the leaf's timeout and the leaf is
\* about to run its after-handler, its before-handler having run
C16_Witness ==
    /\ hist["g.a"].cond = "true"
    /\ hist["g.a"].before = 1
    /\ hist["g.a"].handler = "cancelled"
    /\ hist["g.a"].fired = "started"
    /\ run["g.a"].pc = "after"
    /\ hist["g.a"].after = 0

(***************************************************************************)
(* Claims about a group's synchrony (SpecTree).                            *)
(***************************************************************************)
\* what a component built from these flags resolves to: the requested flag
\* when it is set, else the calculated one
Resolves(requested, calculated) ==
    IF requested = None THEN calculated ELSE requested = Some(TRUE)

\* every child of the group resolves to asynchronous
EveryChildAsync ==
    \A k \in 1..Len(children) :
        Resolves(comp[children[k]].requested_async_flag, comp[children[k]].calculated_async_flag)

\* C15: the calculated flag a group is built with is true iff every child
\* resolves to asynchronous; a group with a child that resolves to
\* synchronous cannot be built with the request to be asynchronous and, once
\* built, resolves to synchronous; the `asynchronous` entry of the group's
\* info_dict is the group's resolved value.
C15_GroupAsyncIffAllChildren ==
    ctor.called =>
        /\ ctor.args.calculated_async_flag <=> EveryChildAsync
        /\ (~EveryChildAsync /\ ctor.args.requested_async_flag = Some(TRUE)) =>
              ctor.raised = "AsyncError"
        /\ ctor.raised = "none" =>
              /\ asynchronous(Val(ctor.self))
                    = Resolves(ctor.args.requested_async_flag, EveryChildAsync)
              /\ ~EveryChildAsync => ~asynchronous(Val(ctor.self))
              /\ info.kind = "info_dict" =>
                    /\ info.value.asynchronous
                          = Resolves(ctor.args.requested_async_flag, EveryChildAsync)
                    /\ ~EveryChildAsync => ~info.value.asynchronous

\* a group over an asynchronous leaf and a leaf that is synchronous by
\* request: its info_dict reports asynchronous = false
C15_Witness ==
    /\ ctor.called /\ ctor.raised = "none"
    /\ children = <<"g.a", "g.b">>
    /\ asynchronous(comp["g.a"])
    /\ comp["g.b"].calculated_async_flag /\ comp["g.b"].requested_async_flag = Some(FALSE)
    /\ ctor.args.requested_async_flag = None
    /\ info.kind = "info_dict"
    /\ info.value.asynchronous = FALSE

(***************************************************************************)
(* Claims about add_extra_handler (SpecHandlers).                          *)
(***************************************************************************)
\* the list `new` is the list `old` with x appended at its end
AppendedAtEnd(old, new, x) ==
    /\ Len(new) = Len(old) + 1
    /\ \A i \in 1..Len(old) : new[i] = old[i]
    /\ new[Len(new)] = x

\* C17: add_extra_handler with the tag BEFORE appends the callable at the end
\* of the before-handler's list and leaves the after-handler's list as it
\* was; with the tag AFTER it appends at the end of the after-handler's list
\* and leaves the before-handler's list as it was; the callables already in
\* the list keep their order and no other field of the component changes.
C17_AddExtraHandler ==
    info.kind = "add_extra_handler" =>
        LET old == info.old
            new == Val(ctor.self)
        IN  /\ info.type = "BEFORE" =>
                  /\ AppendedAtEnd(old.before_handler.functions,
                                   new.before_handler.functions, info.extra_handler)
                  /\ new.after_handler = old.after_handler
            /\ info.type = "AFTER" =>
                  /\ AppendedAtEnd(old.after_handler.functions,
                                   new.after_handler.functions, info.extra_handler)
                  /\ new.before_handler = old.before_handler
            /\ new.before_handler.stage = old.before_handler.stage
            /\ new.after_handler.stage = old.after_handler.stage
            /\ new.timeout = old.timeout
            /\ new.requested_async_flag = old.requested_async_flag
            /\ new.calculated_async_flag = old.calculated_async_flag
            /\ new.start_condition = old.start_condition
            /\ new.name = old.name
            /\ new.path = old.path

\* "h" was appended with the tag BEFORE to a before-handler that held "f"
C17_Witness ==
    /\ info.kind = "add_extra_handler"
    /\ info.type = "BEFORE"
    /\ info.old.before_handler.functions = <<"f">>
    /\ Val(ctor.self).before_handler.functions = <<"f", "h">>
    /\ Val(ctor.self).after_handler.functions = <<"f">>

C19_UnknownTagFails ==
    /\ \A p \in Paths, d \in Defaults :
          Stored(framework_states, p) \notin StateNames \cup {"absent"} =>
              LET r == get_state(framework_states, p, d)
              IN  r.raised # "none" /\ IsNone(r.value)
    /\ (got.called /\ got.stored \notin StateNames \cup {"absent"}) =>
          (got.raised = "KeyError" /\ IsNone(got.value))

\* get_state with the default NOT_RUN has raised on the stored tag "finished"
C19_Witness ==
    /\ got.called /\ got.path = "g.a"
    /\ got.stored = "finished"
    /\ got.default = Some(Member("NOT_RUN"))
    /\ got.raised = "KeyError"

\* C20: a set_state call by the component at path p changes the entry at p
\* and nothing else: every other entry of the session's framework states and
\* the state at every other path are as before, the pipeline's dict is
\* created only when it was absent (one that exists keeps its entries), and
\* every value in it is the name of one of the four states.
C20_SetStateFrame ==
    /\ [](PIPELINE_STATE_KEY \in DOMAIN framework_states =>
            \A q \in DOMAIN framework_states[PIPELINE_STATE_KEY] :
                framework_states[PIPELINE_STATE_KEY][q] \in StateNames)
    /\ [][\A p \in Paths :
            written'[p] # written[p] =>
                /\ DOMAIN framework_states' = DOMAIN framework_states \cup {PIPELINE_STATE_KEY}
                /\ \A k \in DOMAIN framework_states \ {PIPELINE_STATE_KEY} :
                      framework_states'[k] = framework_states[k]
                /\ Stored(framework_states', p) = NameOf(Val(written'[p]))
                /\ \A q \in Paths \ {p} :
                      Stored(framework_states', q) = Stored(framework_states, q)
                /\ DOMAIN framework_states'[PIPELINE_STATE_KEY]
                      = {p} \cup (IF PIPELINE_STATE_KEY \in DOMAIN framework_states
                                  THEN DOMAIN framework_states[PIPELINE_STATE_KEY]
                                  ELSE {})]_vars

\* three components have set their states on a session that another library
\* uses too
C20_Witness ==
    /\ "OTHER" \in DOMAIN framework_states
    /\ framework_states["OTHER"] = OtherEntries["OTHER"]
    /\ Stored(framework_states, "g") = "FINISHED"
    /\ Stored(framework_states, "g.a") = "FAILED"
    /\ Stored(framework_states, "g.b") = "NOT_RUN"

====
